---- MODULE Spec2Model ----
(***************************************************************************)
(* Model of instructions/instruction_renderer.py: version resolution,      *)
(* strategy detection and the three renderers, over a file tree that holds *)
(* one instruction path.  Strings are Python strings; a tree is what       *)
(* pathlib sees below INSTRUCTIONS_DIR / instruction_path.                 *)
(***************************************************************************)
EXTENDS Integers, Sequences, FiniteSets, TLC

VARIABLES tree, call, result, trace

vars == <<tree, call, result, trace>>

(***************************************************************************)
(* Bounds of the inputs.                                                   *)
(***************************************************************************)
\* a tree has version directories v1..vN, N up to MaxVersion
MaxVersion == 10

\* the trees that range over every content of a version directory have up
\* to MaxContentVersions of them
MaxContentVersions == 2

(***************************************************************************)
(* Python strings.                                                         *)
(***************************************************************************)
Char(s, i) == SubSeq(s, i, i)

DigitChars == {"0", "1", "2", "3", "4", "5", "6", "7", "8", "9"}

UpperChars ==
    {"A", "B", "C", "D", "E", "F", "G", "H", "I", "J", "K", "L", "M",
     "N", "O", "P", "Q", "R", "S", "T", "U", "V", "W", "X", "Y", "Z"}

LowerChars ==
    {"a", "b", "c", "d", "e", "f", "g", "h", "i", "j", "k", "l", "m",
     "n", "o", "p", "q", "r", "s", "t", "u", "v", "w", "x", "y", "z"}

WhitespaceChars == {" ", "\n", "\t", "\r", "\f"}

\* str.startswith
StartsWith(s, prefix) ==
    /\ Len(s) >= Len(prefix)
    /\ SubSeq(s, 1, Len(prefix)) = prefix

\* str.isupper: no lower-case character and at least one upper-case one
IsUpper(s) ==
    /\ \A i \in 1..Len(s) : Char(s, i) \notin LowerChars
    /\ \E i \in 1..Len(s) : Char(s, i) \in UpperChars

\* str.strip
RECURSIVE LStrip(_)
LStrip(s) ==
    IF Len(s) > 0 /\ Char(s, 1) \in WhitespaceChars
    THEN LStrip(SubSeq(s, 2, Len(s)))
    ELSE s

RECURSIVE RStrip(_)
RStrip(s) ==
    IF Len(s) > 0 /\ Char(s, Len(s)) \in WhitespaceChars
    THEN RStrip(SubSeq(s, 1, Len(s) - 1))
    ELSE s

Strip(s) == RStrip(LStrip(s))

DigitValue(c) ==
    CASE c = "0" -> 0 [] c = "1" -> 1 [] c = "2" -> 2 [] c = "3" -> 3
      [] c = "4" -> 4 [] c = "5" -> 5 [] c = "6" -> 6 [] c = "7" -> 7
      [] c = "8" -> 8 [] c = "9" -> 9

\* the strings int() accepts, among those made of letters, digits and signs
IsIntLiteral(s) ==
    LET body == IF Len(s) > 0 /\ Char(s, 1) \in {"+", "-"}
                THEN SubSeq(s, 2, Len(s)) ELSE s
    IN  /\ Len(body) > 0
        /\ \A i \in 1..Len(body) : Char(body, i) \in DigitChars

RECURSIVE DecimalValue(_)
DecimalValue(s) ==
    IF Len(s) = 0 THEN 0
    ELSE 10 * DecimalValue(SubSeq(s, 1, Len(s) - 1)) + DigitValue(Char(s, Len(s)))

\* int(s), for s with IsIntLiteral(s)
IntOf(s) ==
    IF Char(s, 1) = "-" THEN 0 - DecimalValue(SubSeq(s, 2, Len(s)))
    ELSE IF Char(s, 1) = "+" THEN DecimalValue(SubSeq(s, 2, Len(s)))
    ELSE DecimalValue(s)

DigitOf(n) ==
    CASE n = 0 -> "0" [] n = 1 -> "1" [] n = 2 -> "2" [] n = 3 -> "3"
      [] n = 4 -> "4" [] n = 5 -> "5" [] n = 6 -> "6" [] n = 7 -> "7"
      [] n = 8 -> "8" [] n = 9 -> "9"

\* str(n) for n >= 0: the decimal numeral that names version n
RECURSIVE Decimal(_)
Decimal(n) ==
    IF n < 10 THEN DigitOf(n) ELSE Decimal(n \div 10) \o DigitOf(n % 10)

\* the name of version directory n
VersionName(n) == "v" \o Decimal(n)

(***************************************************************************)
(* Files.  A template is the sequence of literal texts and variable        *)
(* references the templating service renders; a Python file is the module  *)
(* its execution yields: whether the package import and the file-based     *)
(* load succeed, and its top-level bindings.                               *)
(***************************************************************************)
Absent == [kind |-> "absent"]

Present(f) == f.kind # "absent"

Lit(s) == [var |-> FALSE, s |-> s]

Var(name) == [var |-> TRUE, s |-> name]

Template(tokens) == [kind |-> "j2", tokens |-> tokens]

Markdown(text) == [kind |-> "md", text |-> text]

Module(imports, loads, attrs) ==
    [kind |-> "py", imports |-> imports, loads |-> loads, attrs |-> attrs]

\* a string value
Text(s) == [callable |-> FALSE, text |-> s, raises |-> FALSE]

\* a function: what a call of it returns, or that the call raises
Fn(s, raises) == [callable |-> TRUE, text |-> s, raises |-> raises]

FileNames ==
    {"instruction.j2", "instruction.py", "composables.py", "instruction.md",
     "values.py", "variables.py"}

NoFiles == [f \in FileNames |-> Absent]

Dir(j2, py, comp, md, values, variables) ==
    [f \in FileNames |->
        CASE f = "instruction.j2" -> j2
          [] f = "instruction.py" -> py
          [] f = "composables.py" -> comp
          [] f = "instruction.md" -> md
          [] f = "values.py"      -> values
          [] f = "variables.py"   -> variables]

\* the children of the instruction directory, as iterdir() lists them
DirEntry(name, files) ==
    [name |-> name, isDir |-> TRUE, files |-> files, body |-> Absent]

FileEntry(name, body) ==
    [name |-> name, isDir |-> FALSE, files |-> NoFiles, body |-> body]

(***************************************************************************)
(* Paths below INSTRUCTIONS_DIR / instruction_path: <<>> is the            *)
(* instruction directory, <<name>> a child of it.                          *)
(***************************************************************************)
InstructionDir == <<>>

Child(name) == <<name>>

Unset == <<"<unset>">>

RECURSIVE Find(_, _, _, _)
Find(listing, name, isDir, i) ==
    IF i > Len(listing) THEN 0
    ELSE IF listing[i].name = name /\ listing[i].isDir = isDir THEN i
    ELSE Find(listing, name, isDir, i + 1)

\* the file dir / fname, Absent when the path does not exist
FileAt(t, dir, fname) ==
    IF ~t.exists THEN Absent
    ELSE IF dir = InstructionDir
    THEN LET i == Find(t.listing, fname, FALSE, 1)
         IN  IF i = 0 THEN Absent ELSE t.listing[i].body
    ELSE LET i == Find(t.listing, dir[1], TRUE, 1)
         IN  IF i = 0 \/ fname \notin FileNames THEN Absent
             ELSE t.listing[i].files[fname]

\* Path.exists() of dir / fname
Exists(t, dir, fname) == Present(FileAt(t, dir, fname))

(***************************************************************************)
(* Arguments.  version is None or a string; `if version:` takes the empty  *)
(* string like None.                                                       *)
(***************************************************************************)
None == <<>>

Some(s) == <<s>>

Truthy(version) == version # None /\ version[1] # ""

(***************************************************************************)
(* Version resolution, as each function of the renderer writes it.         *)
(***************************************************************************)
IsVersionDir(d) == d.isDir /\ StartsWith(d.name, "v")

\* [d for d in instruction_dir.iterdir() if d.is_dir() and d.name.startswith('v')]
version_dirs(t) == SelectSeq(t.listing, IsVersionDir)

\* whether int(d.name[1:]) raises ValueError for some d
KeyRaises(dirs) ==
    \E i \in 1..Len(dirs) :
        ~IsIntLiteral(SubSeq(dirs[i].name, 2, Len(dirs[i].name)))

\* the key of a comparison of the names as strings: "10" sorts before "9"
version_key_lexical(d) ==
    LET digits == SubSeq(d.name, 2, Len(d.name))
    IN  11 * DigitValue(Char(digits, 1))
        + (IF Len(digits) > 1 THEN 1 + DigitValue(Char(digits, 2)) ELSE 0)

\* key=lambda d: int(d.name[1:])
version_key(d) == IntOf(SubSeq(d.name, 2, Len(d.name)))

RECURSIVE MaxFrom(_, _, _)
MaxFrom(dirs, i, best) ==
    IF i > Len(dirs) THEN best
    ELSE MaxFrom(dirs, i + 1,
                 IF version_key(dirs[i]) > version_key(best) THEN dirs[i] ELSE best)

\* max(version_dirs, key=...): the first of the maximal elements
latest_version(dirs) == MaxFrom(dirs, 2, dirs[1])

RECURSIVE InsertDesc(_, _)
InsertDesc(sorted, d) ==
    IF sorted = <<>> THEN <<d>>
    ELSE IF version_key(Head(sorted)) >= version_key(d)
    THEN <<Head(sorted)>> \o InsertDesc(Tail(sorted), d)
    ELSE <<d>> \o sorted

RECURSIVE SortFrom(_, _, _)
SortFrom(dirs, i, sorted) ==
    IF i > Len(dirs) THEN sorted
    ELSE SortFrom(dirs, i + 1, InsertDesc(sorted, dirs[i]))

\* the sort without reverse=True: lowest first
sorted_asc(dirs) ==
    LET desc == SortFrom(dirs, 1, <<>>)
    IN  [i \in 1..Len(desc) |-> desc[Len(desc) + 1 - i]]

\* version_dirs.sort(key=..., reverse=True): stable, highest first
sorted_desc(dirs) == SortFrom(dirs, 1, <<>>)

RECURSIVE FirstWith(_, _, _)
FirstWith(dirs, fname, i) ==
    IF i > Len(dirs) THEN 0
    ELSE IF Present(dirs[i].files[fname]) THEN i
    ELSE FirstWith(dirs, fname, i + 1)

(***************************************************************************)
(* What a call does: the string, mapping or module it returns or the       *)
(* exception it raises, and the locals it set on the way.                  *)
(***************************************************************************)
EmptyDict == <<>>

NoResult ==
    [kind |-> "none", text |-> "", exc |-> "", dict |-> EmptyDict, mod |-> Absent]

Returned(s) == [NoResult EXCEPT !.kind = "str", !.text = s]

Raised(e) == [NoResult EXCEPT !.kind = "raise", !.exc = e]

ReturnedDict(d) == [NoResult EXCEPT !.kind = "dict", !.dict = d]

ReturnedModule(m) == [NoResult EXCEPT !.kind = "module", !.mod = m]

ReturnedNone == [NoResult EXCEPT !.kind = "None"]

EmptyTrace ==
    [base_path       |-> Unset,      \* render_instruction: the directory probed
     renderers       |-> <<>>,       \* the renderers entered, in call order
     template_path   |-> Unset,      \* the directory of the template rendered
     values_dir      |-> Unset,      \* the directory the values were looked up in
     merged_context  |-> EmptyDict,  \* the context handed to the template
     composables_dir |-> Unset,      \* the directory composables.py was looked up in
     invoked         |-> <<>>,       \* the composer calls made: name and keywords
     source          |-> Unset]      \* the file the returned string came from

Out(res, tr) == [res |-> res, tr |-> tr]

Fail(e) == Out(Raised(e), EmptyTrace)

\* the renderer `name` was entered and did `out`
Enter(name, out) == Out(out.res, [out.tr EXCEPT !.renderers = <<name>> \o @])

(***************************************************************************)
(* _load_instruction_variables                                             *)
(***************************************************************************)
\* the public upper-case bindings of a loaded values module; {} when the
\* file is missing or its execution fails
values_of(t, version_dir) ==
    LET values_path    == FileAt(t, version_dir, "values.py")
        variables_path == FileAt(t, version_dir, "variables.py")
        version_path   == IF Present(values_path) THEN values_path
                          ELSE variables_path
    IN  IF ~Present(version_path) THEN EmptyDict
        ELSE IF ~version_path.loads THEN EmptyDict
        ELSE [n \in {a \in DOMAIN version_path.attrs :
                        ~StartsWith(a, "_") /\ IsUpper(a)}
                |-> version_path.attrs[n]]

\* the directory values.py / variables.py is looked up in
values_version_dir(t, version) ==
    IF Truthy(version) THEN Child(version[1])
    ELSE IF version_dirs(t) = <<>> THEN InstructionDir
    ELSE Child(latest_version(version_dirs(t)).name)

_load_instruction_variables(t, version) ==
    IF ~Truthy(version) /\ ~t.exists THEN Out(ReturnedDict(EmptyDict), EmptyTrace)
    ELSE IF ~Truthy(version) /\ KeyRaises(version_dirs(t)) THEN Fail("ValueError")
    ELSE LET version_dir == values_version_dir(t, version)
         IN  Out(ReturnedDict(values_of(t, version_dir)),
                 [EmptyTrace EXCEPT !.values_dir = version_dir])

(***************************************************************************)
(* _load_instruction_composables_module and _load_instruction_composables  *)
(***************************************************************************)
_load_instruction_composables_module(t, version) ==
    IF ~Truthy(version) /\ ~t.exists THEN Out(ReturnedNone, EmptyTrace)
    ELSE IF ~Truthy(version) /\ version_dirs(t) = <<>> THEN Out(ReturnedNone, EmptyTrace)
    ELSE IF ~Truthy(version) /\ KeyRaises(version_dirs(t)) THEN Fail("ValueError")
    ELSE LET version_name == IF Truthy(version) THEN version[1]
                             ELSE latest_version(version_dirs(t)).name
             composables_path == FileAt(t, Child(version_name), "composables.py")
             tr == [EmptyTrace EXCEPT !.composables_dir = Child(version_name)]
         IN  IF ~Present(composables_path) THEN Out(ReturnedNone, tr)
             ELSE IF composables_path.imports \/ composables_path.loads
             THEN Out(ReturnedModule(composables_path), tr)
             ELSE Out(ReturnedNone, tr)

\* the public callables of a loaded composables module; {} when the file
\* is missing or its execution fails
composables_of(t, dir) ==
    LET composables_path == FileAt(t, dir, "composables.py")
    IN  IF ~Present(composables_path) THEN EmptyDict
        ELSE IF ~composables_path.loads THEN EmptyDict
        ELSE [n \in {a \in DOMAIN composables_path.attrs :
                        ~StartsWith(a, "_") /\ composables_path.attrs[a].callable}
                |-> composables_path.attrs[n]]

\* the directory composables.py is looked up in
composables_version_dir(t, version) ==
    IF Truthy(version) THEN Child(version[1])
    ELSE IF version_dirs(t) # <<>> THEN Child(latest_version(version_dirs(t)).name)
    ELSE InstructionDir

\* without the fallback of line 162: {} when no version directory is there
_load_instruction_composables_no_fallback(t, version) ==
    IF ~Truthy(version) /\ ~t.exists THEN Out(ReturnedDict(EmptyDict), EmptyTrace)
    ELSE IF ~Truthy(version) /\ version_dirs(t) = <<>>
    THEN Out(ReturnedDict(EmptyDict), EmptyTrace)
    ELSE IF ~Truthy(version) /\ KeyRaises(version_dirs(t)) THEN Fail("ValueError")
    ELSE LET dir == composables_version_dir(t, version)
         IN  Out(ReturnedDict(composables_of(t, dir)),
                 [EmptyTrace EXCEPT !.composables_dir = dir])

_load_instruction_composables(t, version) ==
    IF ~Truthy(version) /\ ~t.exists THEN Out(ReturnedDict(EmptyDict), EmptyTrace)
    ELSE IF ~Truthy(version) /\ KeyRaises(version_dirs(t)) THEN Fail("ValueError")
    ELSE LET dir == composables_version_dir(t, version)
         IN  Out(ReturnedDict(composables_of(t, dir)),
                 [EmptyTrace EXCEPT !.composables_dir = dir])

(***************************************************************************)
(* render_template_instruction                                             *)
(***************************************************************************)
\* {**context_vars, **instruction_vars}: the instruction's values win
merge_left_biased(instruction_vars, context_vars) ==
    [k \in DOMAIN instruction_vars \cup DOMAIN context_vars |->
        IF k \in DOMAIN instruction_vars THEN instruction_vars[k]
        ELSE context_vars[k]]

\* {**instruction_vars, **context_vars}
merge(instruction_vars, context_vars) ==
    [k \in DOMAIN instruction_vars \cup DOMAIN context_vars |->
        IF k \in DOMAIN context_vars THEN context_vars[k] ELSE instruction_vars[k]]

RECURSIVE Substitute(_, _, _)
Substitute(tokens, context, i) ==
    IF i > Len(tokens) THEN ""
    ELSE (IF tokens[i].var THEN context[tokens[i].s].text ELSE tokens[i].s)
         \o Substitute(tokens, context, i + 1)

RECURSIVE SubstituteLenient(_, _, _)
SubstituteLenient(tokens, context, i) ==
    IF i > Len(tokens) THEN ""
    ELSE (IF ~tokens[i].var THEN tokens[i].s
          ELSE IF tokens[i].s \in DOMAIN context THEN context[tokens[i].s].text
          ELSE "")
         \o SubstituteLenient(tokens, context, i + 1)

\* template.render(**context) of an Environment with the default Undefined:
\* a missing variable renders as the empty string
render_lenient(template, context) ==
    Returned(SubstituteLenient(template.tokens, context, 1))

\* template.render(**context) of an Environment with undefined=StrictUndefined
render(template, context) ==
    IF \E i \in 1..Len(template.tokens) :
          template.tokens[i].var /\ template.tokens[i].s \notin DOMAIN context
    THEN Raised("UndefinedError")
    ELSE Returned(Substitute(template.tokens, context, 1))

\* the dispatcher's choice taken for the search: the latest version
\* directory or nothing
template_search_latest_only(t) ==
    IF version_dirs(t) = <<>> THEN Unset
    ELSE LET latest == latest_version(version_dirs(t))
         IN  IF Present(latest.files["instruction.j2"]) THEN Child(latest.name)
             ELSE Unset

\* the highest-numbered version directory holding instruction.j2; Unset
\* when no version directory holds one
template_search(t) ==
    LET dirs == sorted_desc(version_dirs(t))
        i    == FirstWith(dirs, "instruction.j2", 1)
    IN  IF i = 0 THEN Unset ELSE Child(dirs[i].name)

\* lines 239-248: load the template and the values, merge, render, trim
render_at(t, template_path, version, context_vars) ==
    LET template == FileAt(t, template_path, "instruction.j2")
        loaded   == _load_instruction_variables(t, version)
        merged_context == merge(loaded.res.dict, context_vars)
        rendered == render(template, merged_context)
        tr0      == [EmptyTrace EXCEPT !.template_path = template_path]
    IN  IF ~Present(template) THEN Out(Raised("TemplateNotFound"), tr0)
        ELSE IF loaded.res.kind = "raise" THEN Out(loaded.res, tr0)
        ELSE LET tr == [tr0 EXCEPT !.values_dir = loaded.tr.values_dir,
                                   !.merged_context = merged_context]
             IN  IF rendered.kind = "raise" THEN Out(rendered, tr)
                 ELSE Out(Returned(Strip(rendered.text)),
                          [tr EXCEPT !.source = template_path \o <<"instruction.j2">>])

render_template_instruction(t, instruction_path, version, context_vars) ==
    Enter("render_template_instruction",
        IF instruction_path = "" THEN Fail("ValueError")
        ELSE IF Truthy(version)
        THEN render_at(t, Child(version[1]), version, context_vars)
        ELSE IF ~t.exists THEN Fail("FileNotFoundError")
        ELSE IF KeyRaises(version_dirs(t)) THEN Fail("ValueError")
        ELSE IF template_search(t) = Unset THEN Fail("FileNotFoundError")
        ELSE render_at(t, template_search(t), version, context_vars))

(***************************************************************************)
(* compose_python_instruction                                              *)
(***************************************************************************)
\* the module of instruction_renderer.py binds no global named importlib:
\* every `import importlib` of the file is local to another function
ImportlibBound == FALSE

\* composables.get('build_instruction') or composables.get('compose_instruction')
main_composer_legacy_first(composables) ==
    IF "build_instruction" \in DOMAIN composables THEN "build_instruction"
    ELSE IF "compose_instruction" \in DOMAIN composables THEN "compose_instruction"
    ELSE ""

\* composables.get('compose_instruction') or composables.get('build_instruction')
main_composer(composables) ==
    IF "compose_instruction" \in DOMAIN composables THEN "compose_instruction"
    ELSE IF "build_instruction" \in DOMAIN composables THEN "build_instruction"
    ELSE ""

\* composer(**context_vars).strip()
invoke(name, fn, context_vars, file, tr) ==
    LET called == [tr EXCEPT !.invoked =
                      Append(@, [name |-> name, kwargs |-> context_vars, file |-> file])]
    IN  IF fn.raises THEN Out(Raised("ComposerError"), called)
        ELSE Out(Returned(Strip(fn.text)), [called EXCEPT !.source = file])

\* the highest-numbered version directory holding instruction.py; Unset
\* when no version directory holds one
instruction_py_search(t) ==
    LET dirs == sorted_desc(version_dirs(t))
        i    == FirstWith(dirs, "instruction.py", 1)
    IN  IF i = 0 THEN Unset ELSE Child(dirs[i].name)

\* lines 310-328: execute instruction.py, return its constant or compose
load_instruction_py(t, dir, context_vars, tr) ==
    LET instruction_module == FileAt(t, dir, "instruction.py")
        file == dir \o <<"instruction.py">>
    IN  IF ~ImportlibBound THEN Out(Raised("NameError"), tr)
        ELSE IF ~instruction_module.loads THEN Out(Raised("ImportError"), tr)
        ELSE IF "INSTRUCTION" \in DOMAIN instruction_module.attrs
        THEN Out(Returned(Strip(instruction_module.attrs["INSTRUCTION"].text)),
                 [tr EXCEPT !.source = file])
        ELSE IF "compose_instruction" \in DOMAIN instruction_module.attrs
        THEN invoke("compose_instruction",
                    instruction_module.attrs["compose_instruction"],
                    context_vars, file, tr)
        ELSE Out(Raised("FileNotFoundError"), tr)

\* lines 289-308: the fallback to the version-local instruction.py
instruction_py_fallback(t, version, context_vars, tr) ==
    IF Truthy(version)
    THEN IF Exists(t, Child(version[1]), "instruction.py")
         THEN load_instruction_py(t, Child(version[1]), context_vars, tr)
         ELSE Out(Raised("FileNotFoundError"), tr)
    ELSE IF ~t.exists THEN Out(Raised("FileNotFoundError"), tr)
    ELSE IF KeyRaises(version_dirs(t)) THEN Out(Raised("ValueError"), tr)
    ELSE IF instruction_py_search(t) = Unset THEN Out(Raised("FileNotFoundError"), tr)
    ELSE load_instruction_py(t, instruction_py_search(t), context_vars, tr)

compose_python_instruction(t, instruction_path, version, context_vars) ==
    Enter("compose_python_instruction",
        IF instruction_path = "" THEN Fail("ValueError")
        ELSE LET loaded      == _load_instruction_composables(t, version)
                 composables == loaded.res.dict
                 name        == main_composer(composables)
             IN  IF loaded.res.kind = "raise" THEN loaded
                 ELSE IF composables = EmptyDict
                 THEN Out(Raised("FileNotFoundError"), loaded.tr)
                 ELSE IF name # ""
                 THEN invoke(name, composables[name], context_vars,
                             loaded.tr.composables_dir \o <<"composables.py">>,
                             loaded.tr)
                 ELSE instruction_py_fallback(t, version, context_vars, loaded.tr))

(***************************************************************************)
(* compose_markdown_instruction                                            *)
(***************************************************************************)
\* the highest-numbered version directory holding instruction.md; Unset
\* when no version directory holds one
instruction_md_search(t) ==
    LET dirs == sorted_desc(version_dirs(t))
        i    == FirstWith(dirs, "instruction.md", 1)
    IN  IF i = 0 THEN Unset ELSE Child(dirs[i].name)

\* lines 370-378: read instruction.md and trim it
read_markdown(t, dir) ==
    IF ~Exists(t, dir, "instruction.md") THEN Fail("FileNotFoundError")
    ELSE Out(Returned(Strip(FileAt(t, dir, "instruction.md").text)),
             [EmptyTrace EXCEPT !.source = dir \o <<"instruction.md">>])

compose_markdown_instruction(t, instruction_path, version, context_vars) ==
    Enter("compose_markdown_instruction",
        IF instruction_path = "" THEN Fail("ValueError")
        ELSE IF Truthy(version) THEN read_markdown(t, Child(version[1]))
        \* the directory is missing: instruction_md_path was never assigned
        ELSE IF ~t.exists THEN Fail("UnboundLocalError")
        ELSE IF KeyRaises(version_dirs(t)) THEN Fail("ValueError")
        ELSE IF instruction_md_search(t) = Unset THEN Fail("FileNotFoundError")
        ELSE read_markdown(t, instruction_md_search(t)))

(***************************************************************************)
(* render_instruction                                                      *)
(***************************************************************************)
\* the instruction path every call of the dispatcher is made with
InstructionPath == "agents/assistant"

\* the probes in another order: composition before template
strategy_composition_first(t, base_path) ==
    IF Exists(t, base_path, "instruction.py")
       \/ Exists(t, base_path, "composables.py") THEN "COMPOSITION"
    ELSE IF Exists(t, base_path, "instruction.j2") THEN "TEMPLATE"
    ELSE IF Exists(t, base_path, "instruction.md") THEN "STATIC"
    ELSE "NONE"

\* lines 418-426: the renderer the files of base_path select
strategy(t, base_path) ==
    IF Exists(t, base_path, "instruction.j2") THEN "TEMPLATE"
    ELSE IF Exists(t, base_path, "instruction.py")
            \/ Exists(t, base_path, "composables.py") THEN "COMPOSITION"
    ELSE IF Exists(t, base_path, "instruction.md") THEN "STATIC"
    ELSE "NONE"

\* lines 418-426: call the renderer, passing version and keywords through
dispatch(t, base_path, version, context_vars) ==
    LET s  == strategy(t, base_path)
        r  == CASE s = "TEMPLATE" ->
                     render_template_instruction(t, InstructionPath, version, context_vars)
                [] s = "COMPOSITION" ->
                     compose_python_instruction(t, InstructionPath, version, context_vars)
                [] s = "STATIC" ->
                     compose_markdown_instruction(t, InstructionPath, version, context_vars)
                [] OTHER -> Fail("FileNotFoundError")
    IN  Out(r.res, [r.tr EXCEPT !.base_path = base_path])

\* with the loaders' fallback to the instruction directory itself when it
\* holds no version directory
render_instruction_root_fallback(t, version, context_vars) ==
    IF Truthy(version) THEN dispatch(t, Child(version[1]), version, context_vars)
    ELSE IF ~t.exists THEN Fail("FileNotFoundError")
    ELSE IF version_dirs(t) = <<>>
    THEN dispatch(t, InstructionDir, version, context_vars)
    ELSE IF KeyRaises(version_dirs(t)) THEN Fail("ValueError")
    ELSE dispatch(t, Child(latest_version(version_dirs(t)).name), version, context_vars)

render_instruction(t, version, context_vars) ==
    IF Truthy(version) THEN dispatch(t, Child(version[1]), version, context_vars)
    ELSE IF ~t.exists THEN Fail("FileNotFoundError")
    ELSE IF version_dirs(t) = <<>> THEN Fail("FileNotFoundError")
    ELSE IF KeyRaises(version_dirs(t)) THEN Fail("ValueError")
    ELSE dispatch(t, Child(latest_version(version_dirs(t)).name), version, context_vars)

(***************************************************************************)
(* The files the trees are made of.                                        *)
(***************************************************************************)
TemplateName == Template(<<Lit(" Hi "), Var("NAME"), Lit("\n")>>)

TemplateBoth == Template(<<Var("name"), Lit(" & "), Var("NAME")>>)

Md == Markdown(" Hello\n")

ValuesA ==
    Module(TRUE, TRUE,
           ("NAME" :> Text("a")) @@ ("name" :> Text("lower"))
           @@ ("_HIDDEN" :> Text("h")) @@ ("Mixed" :> Text("m")))

ValuesB == Module(TRUE, TRUE, ("NAME" :> Text("z")) @@ ("EXTRA" :> Text("e")))

\* a values.py whose execution raises
ValuesBroken == Module(FALSE, FALSE, EmptyDict)

VariablesLegacy == Module(TRUE, TRUE, "NAME" :> Text("legacy"))

CompCanonical ==
    Module(FALSE, TRUE,
           ("compose_instruction" :> Fn(" composed\n", FALSE))
           @@ ("_helper" :> Fn("h", FALSE)) @@ ("DEFAULT" :> Text("d")))

CompLegacy == Module(FALSE, TRUE, "build_instruction" :> Fn(" built ", FALSE))

CompBoth ==
    Module(FALSE, TRUE,
           ("compose_instruction" :> Fn("composed", FALSE))
           @@ ("build_instruction" :> Fn("built", FALSE)))

CompRaising == Module(FALSE, TRUE, "compose_instruction" :> Fn("", TRUE))

\* composables with no composer, like projects/instructions/assistant/v1
CompHelpers == Module(FALSE, TRUE, "compose_full_instruction" :> Fn("full", FALSE))

\* the same with its relative import: importable as a package, not as a file
CompRelative == Module(TRUE, FALSE, "compose_full_instruction" :> Fn("full", FALSE))

PyConstant == Module(FALSE, TRUE, "INSTRUCTION" :> Text(" constant "))

PyComposer == Module(FALSE, TRUE, "compose_instruction" :> Fn(" from py ", FALSE))

EmptyVersion == NoFiles

MdOnly == Dir(Absent, Absent, Absent, Md, Absent, Absent)

TemplateWithValues == Dir(TemplateName, Absent, Absent, Absent, ValuesA, Absent)

FullVersion == Dir(TemplateName, PyConstant, CompCanonical, Md, ValuesB, Absent)

\* every combination of the four strategy artifacts, with and without values
PresenceProfiles ==
    {Dir(j2, py, comp, md, values, Absent) :
        j2 \in {Absent, TemplateName}, py \in {Absent, PyConstant},
        comp \in {Absent, CompCanonical}, md \in {Absent, Md},
        values \in {Absent, ValuesA}}

TemplateProfiles ==
    {Dir(j2, Absent, Absent, Absent, values, variables) :
        j2 \in {TemplateName, TemplateBoth},
        values \in {Absent, ValuesA, ValuesB, ValuesBroken},
        variables \in {Absent, VariablesLegacy}}

ComposeProfiles ==
    {Dir(Absent, py, comp, Absent, Absent, Absent) :
        py \in {Absent, PyConstant, PyComposer},
        comp \in {Absent, CompCanonical, CompLegacy, CompBoth, CompRaising,
                  CompHelpers, CompRelative}}

LatestProfiles ==
    PresenceProfiles \cup TemplateProfiles \cup ComposeProfiles
    \cup {Dir(Absent, Absent, Absent, Absent, ValuesB, Absent)}

OlderProfiles ==
    {EmptyVersion, MdOnly, TemplateWithValues, FullVersion,
     Dir(TemplateName, Absent, Absent, Absent, Absent, Absent),
     Dir(Absent, PyConstant, Absent, Absent, Absent, Absent),
     Dir(Absent, Absent, CompCanonical, Absent, Absent, Absent),
     Dir(Absent, PyConstant, CompHelpers, Absent, Absent, Absent)}

\* a child of the instruction directory that is no version directory
NoExtra == <<>>

Vendor == <<DirEntry("vendor", MdOnly)>>

\* the other children a tree may hold: directories that are no version
\* directory, v01, numbered like v1, and files of the instruction directory
Extras ==
    {NoExtra, Vendor,
     <<DirEntry("v", EmptyVersion)>>,
     <<DirEntry("v1a", MdOnly)>>,
     <<DirEntry("v01", MdOnly)>>,
     <<DirEntry("docs", MdOnly)>>,
     <<FileEntry("v999", Markdown("note"))>>,
     <<FileEntry("values.py", ValuesA)>>,
     <<FileEntry("composables.py", CompCanonical)>>}

Orders == {"ascending", "descending", "rotated"}

RECURSIVE Reverse(_)
Reverse(s) == IF s = <<>> THEN <<>> ELSE Reverse(Tail(s)) \o <<Head(s)>>

\* the order iterdir() returns the children in
Ordered(entries, order) ==
    IF entries = <<>> THEN entries
    ELSE CASE order = "ascending"  -> entries
           [] order = "descending" -> Reverse(entries)
           [] order = "rotated"    -> Tail(entries) \o <<Head(entries)>>

\* an existing instruction directory with version directories v1..vn: vn
\* holds `latest`, every other one `older`
MakeTree(n, latest, older, extra, order) ==
    [exists  |-> TRUE,
     listing |-> Ordered([i \in 1..n |->
                             DirEntry(VersionName(i),
                                      IF i = n THEN latest ELSE older)] \o extra,
                         order)]

MissingTree == [exists |-> FALSE, listing |-> <<>>]

\* a few version directories, of every content
ContentTrees ==
    {MakeTree(n, latest, older, extra, "ascending") :
        n \in 1..MaxContentVersions, latest \in LatestProfiles, older \in OlderProfiles,
        extra \in {NoExtra, Vendor}}

\* up to MaxVersion version directories, in every listing order, with
\* every other child
VersionTrees ==
    {MakeTree(n, c[1], c[2], extra, order) :
        n \in 0..MaxVersion,
        c \in {<<MdOnly, EmptyVersion>>, <<TemplateWithValues, FullVersion>>,
               <<EmptyVersion, FullVersion>>,
               <<Dir(Absent, Absent, CompCanonical, Absent, Absent, Absent),
                 EmptyVersion>>},
        extra \in Extras, order \in Orders}

Trees == {MissingTree} \cup ContentTrees \cup VersionTrees

(***************************************************************************)
(* The calls.                                                              *)
(***************************************************************************)
Contexts == {EmptyDict, "NAME" :> Text("b"), "name" :> Text("c")}

\* None, the empty string, two version directories, a child that is no
\* version directory, and a version beyond every tree
VersionArgs ==
    {None, Some(""), Some("v1"), Some("v2"), Some("vendor"),
     Some(VersionName(MaxVersion + 1))}

Arguments ==
    {a \in [path : {InstructionPath, ""}, version : VersionArgs, ctx : Contexts] :
        a.path = "" => (a.version = None /\ a.ctx = EmptyDict)}

NoCall == [fn |-> "", path |-> "", version |-> None, ctx |-> EmptyDict]

Call(fn, a) == [fn |-> fn, path |-> a.path, version |-> a.version, ctx |-> a.ctx]

Init ==
    /\ tree \in Trees
    /\ call = NoCall
    /\ result = NoResult
    /\ trace = EmptyTrace

Finish(fn, a, out) ==
    /\ call' = Call(fn, a)
    /\ result' = out.res
    /\ trace' = out.tr
    /\ UNCHANGED tree

CallRenderInstruction ==
    /\ call = NoCall
    /\ \E a \in Arguments :
        /\ a.path = InstructionPath
        /\ Finish("render_instruction", a, render_instruction(tree, a.version, a.ctx))

CallRenderTemplateInstruction ==
    /\ call = NoCall
    /\ \E a \in Arguments :
        Finish("render_template_instruction", a,
               render_template_instruction(tree, a.path, a.version, a.ctx))

CallComposePythonInstruction ==
    /\ call = NoCall
    /\ \E a \in Arguments :
        Finish("compose_python_instruction", a,
               compose_python_instruction(tree, a.path, a.version, a.ctx))

CallComposeMarkdownInstruction ==
    /\ call = NoCall
    /\ \E a \in Arguments :
        Finish("compose_markdown_instruction", a,
               compose_markdown_instruction(tree, a.path, a.version, a.ctx))

CallLoadInstructionVariables ==
    /\ call = NoCall
    /\ \E a \in Arguments :
        /\ a.path = InstructionPath /\ a.ctx = EmptyDict
        /\ Finish("_load_instruction_variables", a,
                  _load_instruction_variables(tree, a.version))

CallLoadInstructionComposables ==
    /\ call = NoCall
    /\ \E a \in Arguments :
        /\ a.path = InstructionPath /\ a.ctx = EmptyDict
        /\ Finish("_load_instruction_composables", a,
                  _load_instruction_composables(tree, a.version))

CallLoadInstructionComposablesModule ==
    /\ call = NoCall
    /\ \E a \in Arguments :
        /\ a.path = InstructionPath /\ a.ctx = EmptyDict
        /\ Finish("_load_instruction_composables_module", a,
                  _load_instruction_composables_module(tree, a.version))

\* the call is over: its result and locals are discarded
Return ==
    /\ call # NoCall
    /\ call' = NoCall
    /\ result' = NoResult
    /\ trace' = EmptyTrace
    /\ UNCHANGED tree

Next ==
    \/ CallRenderInstruction
    \/ CallRenderTemplateInstruction
    \/ CallComposePythonInstruction
    \/ CallComposeMarkdownInstruction
    \/ CallLoadInstructionVariables
    \/ CallLoadInstructionComposables
    \/ CallLoadInstructionComposablesModule
    \/ Return

Spec == Init /\ [][Next]_vars

(***************************************************************************)
(* What the claims speak of.                                               *)
(***************************************************************************)
Called(fn) == call.fn = fn

VersionOmitted == ~Truthy(call.version)

\* the names of the child directories that start with "v"
VDirNames(t) ==
    {t.listing[i].name : i \in {j \in 1..Len(t.listing) : IsVersionDir(t.listing[j])}}

\* the child directories that start with "v" are exactly v1..vN, N >= 1
VersionsAreOneToN(t) ==
    /\ t.exists
    /\ VDirNames(t) # {}
    /\ VDirNames(t) = {VersionName(i) : i \in 1..Cardinality(VDirNames(t))}

\* a child directory that starts with "v" and is not "v" followed by digits
IsJunkDir(d) ==
    /\ IsVersionDir(d)
    /\ \/ Len(d.name) = 1
       \/ \E i \in 2..Len(d.name) : Char(d.name, i) \notin DigitChars

HasJunkDir(t) == \E i \in 1..Len(t.listing) : IsJunkDir(t.listing[i])

NotJunk(d) == ~IsJunkDir(d)

\* the tree without those directories
WithoutJunk(t) == [t EXCEPT !.listing = SelectSeq(@, NotJunk)]

\* the numbers n of the version directories vn that hold the file fname
Holders(t, fname) ==
    {n \in 1..MaxVersion + 1 :
        VersionName(n) \in VDirNames(t) /\ Exists(t, Child(VersionName(n)), fname)}

\* the greatest number of a non-empty set of numbers
Greatest(numbers) == CHOOSE n \in numbers : \A m \in numbers : m <= n

\* the artifacts a strategy is detected by
StrategyFiles ==
    {"instruction.j2", "instruction.py", "composables.py", "instruction.md"}

\* the call made has no instruction.md to resolve
NoStaticDocument ==
    IF Truthy(call.version)
    THEN ~Exists(tree, Child(call.version[1]), "instruction.md")
    ELSE \/ ~tree.exists
         \/ /\ ~HasJunkDir(tree)
            /\ instruction_md_search(tree) = Unset

\* the call c made on the tree t
Apply(c, t) ==
    CASE c.fn = "render_instruction" ->
            render_instruction(t, c.version, c.ctx)
      [] c.fn = "render_template_instruction" ->
            render_template_instruction(t, c.path, c.version, c.ctx)
      [] c.fn = "compose_python_instruction" ->
            compose_python_instruction(t, c.path, c.version, c.ctx)
      [] c.fn = "compose_markdown_instruction" ->
            compose_markdown_instruction(t, c.path, c.version, c.ctx)
      [] c.fn = "_load_instruction_variables" ->
            _load_instruction_variables(t, c.version)
      [] c.fn = "_load_instruction_composables" ->
            _load_instruction_composables(t, c.version)
      [] c.fn = "_load_instruction_composables_module" ->
            _load_instruction_composables_module(t, c.version)

(***************************************************************************)
(* C1: render_instruction picks its renderer by strict priority over the   *)
(* directory it resolved: instruction.j2 selects the template renderer     *)
(* whatever else is there; otherwise instruction.py or composables.py      *)
(* selects the composition renderer, even beside instruction.md; otherwise *)
(* instruction.md selects the static loader.  One renderer is entered per  *)
(* call, and none when the directory holds none of the four.               *)
(***************************************************************************)
C1_StrategyPriority ==
    (Called("render_instruction") /\ trace.base_path # Unset) =>
        LET has(f) == Exists(tree, trace.base_path, f)
        IN  /\ has("instruction.j2") =>
                trace.renderers = <<"render_template_instruction">>
            /\ (~has("instruction.j2")
                /\ (has("instruction.py") \/ has("composables.py"))) =>
                trace.renderers = <<"compose_python_instruction">>
            /\ (~has("instruction.j2") /\ ~has("instruction.py")
                /\ ~has("composables.py") /\ has("instruction.md")) =>
                trace.renderers = <<"compose_markdown_instruction">>
            /\ Len(trace.renderers) <= 1

\* a directory holding all four artifacts went to the template renderer
C1_Witness ==
    /\ Called("render_instruction")
    /\ trace.base_path # Unset
    /\ Exists(tree, trace.base_path, "instruction.j2")
    /\ Exists(tree, trace.base_path, "composables.py")
    /\ Exists(tree, trace.base_path, "instruction.py")
    /\ Exists(tree, trace.base_path, "instruction.md")
    /\ trace.renderers = <<"render_template_instruction">>

(***************************************************************************)
(* C2: when the version directories are v1..vN, render_instruction without *)
(* a version probes vN, the directory of the greatest number, in whatever  *)
(* order the directory lists its children.                                 *)
(***************************************************************************)
C2_LatestIsNumericMax ==
    (Called("render_instruction") /\ VersionOmitted /\ VersionsAreOneToN(tree)) =>
        trace.base_path = Child(VersionName(Cardinality(VDirNames(tree))))

\* v10 was probed in a tree that also holds v9 and does not list v10 last
C2_Witness ==
    /\ Called("render_instruction")
    /\ VersionOmitted
    /\ VersionsAreOneToN(tree)
    /\ {"v9", "v10"} \subseteq VDirNames(tree)
    /\ tree.listing[Len(tree.listing)].name # "v10"
    /\ trace.base_path = Child("v10")

(***************************************************************************)
(* C3: the context render_template_instruction hands to the template is    *)
(* the instruction's values overlaid by the caller's keywords: a key of    *)
(* both has the caller's value, a key of the values alone keeps its value, *)
(* every caller key is there, and keys that differ in case are different   *)
(* keys.                                                                   *)
(***************************************************************************)
C3_CallerOverridesValues ==
    (Called("render_template_instruction") /\ trace.values_dir # Unset) =>
        LET local  == values_of(tree, trace.values_dir)
            merged == trace.merged_context
        IN  /\ DOMAIN merged = DOMAIN local \cup DOMAIN call.ctx
            /\ \A k \in DOMAIN call.ctx : merged[k] = call.ctx[k]
            /\ \A k \in DOMAIN local \ DOMAIN call.ctx : merged[k] = local[k]
            /\ ("name" \in DOMAIN call.ctx /\ "NAME" \in DOMAIN local
                /\ "NAME" \notin DOMAIN call.ctx) =>
                    merged["NAME"] = local["NAME"]
            /\ (result.kind = "str" /\ "NAME" \in DOMAIN call.ctx
                /\ FileAt(tree, trace.template_path, "instruction.j2") = TemplateName) =>
                    result.text = "Hi " \o call.ctx["NAME"].text

\* the values hold NAME = "a", the caller passes NAME = "b": "Hi b"
C3_Witness ==
    /\ Called("render_template_instruction")
    /\ trace.values_dir # Unset
    /\ "NAME" \in DOMAIN values_of(tree, trace.values_dir)
    /\ values_of(tree, trace.values_dir)["NAME"].text = "a"
    /\ "NAME" \in DOMAIN call.ctx
    /\ result = Returned("Hi b")

(***************************************************************************)
(* C4: a template that references a variable absent from the merged        *)
(* context never renders: render_template_instruction and                  *)
(* render_instruction raise, and return no string.                         *)
(***************************************************************************)
C4_UndefinedVariableRaises ==
    LET template == FileAt(tree, trace.template_path, "instruction.j2")
    IN  (/\ call.fn \in {"render_template_instruction", "render_instruction"}
         /\ trace.template_path # Unset
         /\ trace.values_dir # Unset
         /\ Present(template)
         /\ \E i \in 1..Len(template.tokens) :
               /\ template.tokens[i].var
               /\ template.tokens[i].s \notin DOMAIN trace.merged_context)
        => result = Raised("UndefinedError")

\* through the dispatcher: the caller passes NAME, the template also wants name
C4_Witness ==
    /\ Called("render_instruction")
    /\ "NAME" \in DOMAIN call.ctx
    /\ "NAME" \in DOMAIN trace.merged_context
    /\ FileAt(tree, trace.template_path, "instruction.j2") = TemplateBoth
    /\ result = Raised("UndefinedError")

(***************************************************************************)
(* C5: render_instruction raises FileNotFoundError when the instruction    *)
(* path is missing and no version is given, when the path holds no version *)
(* directory and no version is given, and when the version given names a   *)
(* directory that is missing or holds none of the four artifacts.          *)
(***************************************************************************)
C5_NotFound ==
    (/\ Called("render_instruction")
     /\ \/ VersionOmitted /\ ~tree.exists
        \/ VersionOmitted /\ tree.exists /\ VDirNames(tree) = {}
        \/ /\ Truthy(call.version)
           /\ \A f \in StrategyFiles : ~Exists(tree, Child(call.version[1]), f))
    => result = Raised("FileNotFoundError")

\* a version beyond v1, the only version directory there is
C5_Witness ==
    /\ Called("render_instruction")
    /\ VDirNames(tree) = {"v1"}
    /\ call.version = Some(VersionName(MaxVersion + 1))
    /\ result = Raised("FileNotFoundError")

(***************************************************************************)
(* C6: when the composables.py that compose_python_instruction resolves    *)
(* loads and exposes compose_instruction, that function is called once,    *)
(* with the caller's keywords, and its result is returned trimmed;         *)
(* build_instruction is called only when compose_instruction is absent; a  *)
(* composer that raises makes the call raise.                              *)
(***************************************************************************)
C6_CanonicalComposer ==
    (/\ call.fn \in {"compose_python_instruction", "render_instruction"}
     /\ call.path # ""
     /\ trace.composables_dir # Unset)
    =>  LET dir  == trace.composables_dir
            comp == FileAt(tree, dir, "composables.py")
            file == dir \o <<"composables.py">>
            exposes(n) == /\ Present(comp)
                          /\ comp.loads
                          /\ n \in DOMAIN comp.attrs
                          /\ comp.attrs[n].callable
            only(n) == trace.invoked = <<[name |-> n, kwargs |-> call.ctx, file |-> file]>>
            outcome(fn) == IF fn.raises THEN result.kind = "raise"
                           ELSE result = Returned(Strip(fn.text))
        IN  /\ exposes("compose_instruction") =>
                /\ only("compose_instruction")
                /\ outcome(comp.attrs["compose_instruction"])
            /\ (\E i \in 1..Len(trace.invoked) :
                    trace.invoked[i].name = "build_instruction") =>
                ~exposes("compose_instruction")
            /\ (~exposes("compose_instruction") /\ exposes("build_instruction")) =>
                /\ only("build_instruction")
                /\ outcome(comp.attrs["build_instruction"])

\* both composers are there: compose_instruction ran, with the keywords
C6_Witness ==
    /\ Called("compose_python_instruction")
    /\ trace.composables_dir # Unset
    /\ FileAt(tree, trace.composables_dir, "composables.py") = CompBoth
    /\ call.ctx # EmptyDict
    /\ Len(trace.invoked) = 1
    /\ trace.invoked[1].name = "compose_instruction"
    /\ trace.invoked[1].kwargs = call.ctx
    /\ result = Returned("composed")

(***************************************************************************)
(* C7: when composables.py is missing from the resolved version, or has no *)
(* composer, compose_python_instruction falls back to the version-local    *)
(* instruction.py: it returns that module's INSTRUCTION constant trimmed,  *)
(* else the trimmed result of its compose_instruction.                     *)
(***************************************************************************)
C7_InstructionPyFallback ==
    (/\ Called("compose_python_instruction")
     /\ call.path # ""
     /\ VersionOmitted => (tree.exists /\ ~HasJunkDir(tree))
     /\ main_composer(composables_of(tree,
                        composables_version_dir(tree, call.version))) = ""
     /\ Exists(tree,
               IF Truthy(call.version) THEN Child(call.version[1])
               ELSE instruction_py_search(tree),
               "instruction.py"))
    =>  LET dir == IF Truthy(call.version) THEN Child(call.version[1])
                   ELSE instruction_py_search(tree)
            py  == FileAt(tree, dir, "instruction.py")
        IN  IF "INSTRUCTION" \in DOMAIN py.attrs
            THEN result = Returned(Strip(py.attrs["INSTRUCTION"].text))
            ELSE "compose_instruction" \in DOMAIN py.attrs =>
                    result = Returned(Strip(py.attrs["compose_instruction"].text))

(***************************************************************************)
(* C8: the values render_template_instruction merges into the context are  *)
(* those of the version directory whose instruction.j2 it renders, also    *)
(* when no version is given and the template is found below the latest     *)
(* version directory.                                                      *)
(***************************************************************************)
C8_ValuesOfTemplateVersion ==
    (/\ Called("render_template_instruction")
     /\ trace.template_path # Unset
     /\ trace.values_dir # Unset)
    => trace.merged_context = merge(values_of(tree, trace.template_path), call.ctx)

(***************************************************************************)
(* C9: compose_markdown_instruction, called with a non-empty path, raises  *)
(* FileNotFoundError and nothing else whenever there is no instruction.md  *)
(* to resolve: the path is missing, it has no version directory, no        *)
(* version directory holds instruction.md, or the version given lacks it.  *)
(***************************************************************************)
C9_MarkdownNotFound ==
    (Called("compose_markdown_instruction") /\ call.path # "" /\ NoStaticDocument)
    => result = Raised("FileNotFoundError")

(***************************************************************************)
(* C10: with no version given, a child directory whose name starts with    *)
(* "v" without being "v" and digits takes no part in version resolution:   *)
(* every renderer and loader returns or raises what it does on the tree    *)
(* without that directory.                                                 *)
(***************************************************************************)
C10_JunkDirectoryIgnored ==
    (call # NoCall /\ call.path # "" /\ VersionOmitted /\ HasJunkDir(tree))
    => result = Apply(call, WithoutJunk(tree)).res

(***************************************************************************)
(* C11, as the spec states it: with no version given and no version        *)
(* directory below the instruction path, both composable loaders return    *)
(* at once with nothing loaded: the module loader None, the mapping loader *)
(* an empty mapping, also when composables.py lies in the instruction      *)
(* directory itself.                                                       *)
(***************************************************************************)
C11_LoadersReturnEmpty ==
    (VersionOmitted /\ tree.exists /\ VDirNames(tree) = {}) =>
        /\ Called("_load_instruction_composables_module") => result = ReturnedNone
        /\ Called("_load_instruction_composables") => result = ReturnedDict(EmptyDict)

(***************************************************************************)
(* C11, amended: with no version given and no version directory below the  *)
(* instruction path, the module loader returns None and looks up no file;  *)
(* the mapping loader falls back to the composables.py of the instruction  *)
(* directory itself and returns its public callables, and the empty        *)
(* mapping when that file is missing or fails to load.                     *)
(***************************************************************************)
C11_RootComposablesFallback ==
    (VersionOmitted /\ tree.exists /\ VDirNames(tree) = {}) =>
        LET root == FileAt(tree, InstructionDir, "composables.py")
            public == IF Present(root) /\ root.loads
                      THEN {n \in DOMAIN root.attrs :
                               ~StartsWith(n, "_") /\ root.attrs[n].callable}
                      ELSE {}
        IN  /\ Called("_load_instruction_composables_module") =>
                  (result = ReturnedNone /\ trace.composables_dir = Unset)
            /\ Called("_load_instruction_composables") =>
                  /\ result.kind = "dict"
                  /\ DOMAIN result.dict = public
                  /\ \A n \in public : result.dict[n] = root.attrs[n]
                  /\ trace.composables_dir = InstructionDir

\* no version directory, composables.py in the instruction directory: the
\* mapping loader returned its compose_instruction
C11_Witness ==
    /\ Called("_load_instruction_composables")
    /\ VersionOmitted
    /\ tree.exists
    /\ VDirNames(tree) = {}
    /\ FileAt(tree, InstructionDir, "composables.py") = CompCanonical
    /\ result.kind = "dict"
    /\ DOMAIN result.dict = {"compose_instruction"}

(***************************************************************************)
(* C12: render_template_instruction without a version renders the          *)
(* instruction.j2 of the highest-numbered version directory that holds     *)
(* one, passing over higher-numbered directories that lack it, and raises  *)
(* FileNotFoundError when the instruction path has no version directory or *)
(* none of them holds instruction.j2.  The directory searched out need not *)
(* be the numerically latest one, the one render_instruction probes.       *)
(***************************************************************************)
C12_TemplateSearch ==
    (/\ Called("render_template_instruction")
     /\ call.path # ""
     /\ VersionOmitted
     /\ tree.exists
     /\ ~HasJunkDir(tree))
    =>  LET holders == Holders(tree, "instruction.j2")
        IN  IF holders = {} THEN result = Raised("FileNotFoundError")
            ELSE LET dir      == Child(VersionName(Greatest(holders)))
                     template == FileAt(tree, dir, "instruction.j2")
                 IN  /\ trace.template_path = dir
                     /\ result # Raised("FileNotFoundError")
                     /\ result.kind = "str" =>
                           /\ trace.source = dir \o <<"instruction.j2">>
                           /\ result.text =
                                 Strip(Substitute(template.tokens,
                                                  trace.merged_context, 1))

\* v9 holds a template and v10 none: the template of v9 was rendered, while
\* the latest directory is v10
C12_Witness ==
    /\ Called("render_template_instruction")
    /\ VersionOmitted
    /\ ~HasJunkDir(tree)
    /\ {"v1", "v9", "v10"} \subseteq VDirNames(tree)
    /\ Exists(tree, Child("v1"), "instruction.j2")
    /\ Exists(tree, Child("v9"), "instruction.j2")
    /\ ~Exists(tree, Child("v10"), "instruction.j2")
    /\ latest_version(version_dirs(tree)).name = "v10"
    /\ trace.template_path = Child("v9")
    /\ result.kind = "str"

(***************************************************************************)
(* C13: render_instruction detects the strategy on one version directory   *)
(* and passes the version on unchanged, so the renderer resolves the       *)
(* version again by itself.  Whenever a call without a version returns a   *)
(* string, the artifact the string came from (instruction.j2,              *)
(* composables.py, instruction.py or instruction.md) lies in the           *)
(* numerically latest version directory, the directory the strategy was    *)
(* detected on, and never in an older one.                                 *)
(***************************************************************************)
C13_SourceInLatestVersion ==
    (Called("render_instruction") /\ VersionOmitted /\ result.kind = "str") =>
        /\ trace.base_path # Unset
        /\ Len(trace.source) = 2
        /\ SubSeq(trace.source, 1, 1) = trace.base_path
        /\ trace.source[2] \in StrategyFiles
        /\ Exists(tree, trace.base_path, trace.source[2])
        /\ \A name \in VDirNames(tree) :
              IntOf(SubSeq(name, 2, Len(name)))
                  <= IntOf(SubSeq(trace.base_path[1], 2, Len(trace.base_path[1])))

\* v1 and v2 both hold instruction.md, the only artifact of v2: the string
\* is the document of v2
C13_Witness ==
    /\ Called("render_instruction")
    /\ VersionOmitted
    /\ VDirNames(tree) = {"v1", "v2"}
    /\ Exists(tree, Child("v1"), "instruction.md")
    /\ Exists(tree, Child("v2"), "instruction.md")
    /\ trace.renderers = <<"compose_markdown_instruction">>
    /\ trace.base_path = Child("v2")
    /\ trace.source = <<"v2", "instruction.md">>
    /\ result = Returned("Hello")

====
